---- MODULE Spec2Model ----
(***************************************************************************)
(* Model of Programmering/HX711_bits_reader.py: the bit-banged HX711       *)
(* driver (class HX711) and the barrier-synchronised three-channel sampler *)
(* (read_three_hx711).                                                     *)
(*                                                                         *)
(* Two specifications share this module:                                   *)
(*   Spec        the sampler: coordinator (main thread) + three workers,   *)
(*               threading.Barrier(4), threading.Event, threading.Lock.    *)
(*   DriverSpec  one HX711.read_raw call against a device that shifts a    *)
(*               24-bit pattern out MSB first, one bit per rising edge.    *)
(***************************************************************************)
EXTENDS Integers, Sequences, FiniteSets, TLC

\* ------------------------------------------------------------------------
\* Bounds of the model
\* ------------------------------------------------------------------------
\* Largest number of ticks (n_samples) a modelled session runs.
MaxTicks == 2
\* Time is counted in units of 1/TimeUnits second; rate_hz is drawn from the
\* divisors of TimeUnits, so that period = 1.0 / rate_hz is a whole number
\* of units.
TimeUnits == 2
\* duration_s is drawn from 1 .. MaxDuration units.
MaxDuration == 3
\* A later time.perf_counter() call returns up to MaxLag units more than the
\* one before it.
MaxLag == 1
\* wait_ready polls is_ready at most MaxPolls times before its timeout elapses.
MaxPolls == 2
\* The environment injects at most MaxFaults faults into a session.
MaxFaults == 1
\* read_three_hx711 is called with lists of 1 to MaxDrivers drivers.
MaxDrivers == 4
\* Patterns within PatternSpread of 0, 2^23 and 2^24-1 are shifted out.
PatternSpread == 1

\* ------------------------------------------------------------------------
\* Program constants
\* ------------------------------------------------------------------------
\* for _ in range(24)
DataBits == 24
\* range(3): one worker per HX711
NumWorkers == 3

\* Faulty variant: a barrier sized for the workers alone, Barrier(3).
PartiesMutant == NumWorkers
\* threading.Barrier(4): 3 workers + main thread
Parties == 4

Workers == 0 .. (NumWorkers - 1)
\* The coordinator is the thread that called read_three_hx711.
Main == NumWorkers
Threads == Workers \cup {Main}

Pow2(n) == 2 ^ n

\* ------------------------------------------------------------------------
\* HX711.read_raw, lines 85-88: 24-bit two's complement to signed int.
\*   if value & 0x800000: value -= 1 << 24
\* ------------------------------------------------------------------------
SignBitSet(value) == ((value \div Pow2(DataBits - 1)) % 2) = 1

\* Faulty variant: value -= 1 << 23.
DecodeMutant(value) == IF SignBitSet(value) THEN value - Pow2(DataBits - 1) ELSE value
Decode(value) == IF SignBitSet(value) THEN value - Pow2(DataBits) ELSE value

\* The 24-bit pattern the device of channel i holds at that channel's n-th
\* read_raw call (n = 1, 2, ...): a scripted device whose conversions differ
\* from channel to channel and from read to read, positive and negative.
ScriptedPattern(i, n) ==
    IF n % 2 = 1 THEN 100 * (i + 1) + n
                 ELSE Pow2(DataBits) - (100 * (i + 1) + n)

\* What one hx_list[i].read_raw(timeout_s=0.25) call does: it returns the
\* decoded conversion (line 88) or raises TimeoutError (line 67).
RawReturned(u) == [raised |-> FALSE, value |-> Decode(u)]
RawRaised == [raised |-> TRUE, value |-> 0]
ReadOutcomes(i, n) == {RawReturned(ScriptedPattern(i, n)), RawRaised}

\* Faulty variant: the except clause drops the exception (err = None).
WorkerResultMutant(o) ==
    IF o.raised THEN [val |-> 0, err |-> "None"]
                ELSE [val |-> o.value, err |-> "None"]
\* lines 133-138: val, err after the try statement of the worker
WorkerResult(o) ==
    IF o.raised THEN [val |-> 0, err |-> "TimeoutError"]
                ELSE [val |-> o.value, err |-> "None"]

RateSet == {r \in 1 .. TimeUnits : TimeUnits % r = 0}

\* line 115: period = 1.0 / rate_hz, in time units
Period(rate) == TimeUnits \div rate

\* Faulty variant: the product rounded up.
NSamplesMutant(rate, duration) == (duration * rate + TimeUnits - 1) \div TimeUnits
\* line 116: n_samples = int(duration_s * rate_hz), duration in time units
NSamples(rate, duration) == (duration * rate) \div TimeUnits

VARIABLES
    hx_len,       \* len(hx_list)
    rate_hz,      \* argument rate_hz
    duration_s,   \* argument duration_s, in time units
    n_samples,    \* line 116
    bstate,       \* barrier._state: 0 filling, 1 draining, -2 broken
    bcount,       \* barrier._count: threads inside barrier.wait()
    stop_flag,    \* threading.Event
    lock,         \* threading.Lock: the holder, or -1 when free
    latest,       \* latest["v"], latest["err"]
    pc,           \* position of every thread
    val, err,     \* worker locals
    tick,         \* index of the for loop of line 159
    clock,        \* time.perf_counter() as the coordinator last read it
    now,          \* line 161
    t_start,      \* line 156
    next_t,       \* line 157, 187
    vcopy, ecopy, \* v1..v3, e1..e3 of the coordinator
    rows,         \* rows: List[Sample]
    errlog,       \* per tick, the channels print() reported (lines 178-182)
    outfile,      \* argument outfile, once line 196 has read it
    file,         \* the CSV file written by lines 197-201
    reads,        \* history: per worker, the outcomes of its read_raw calls
    arrivals,     \* history: per thread, barrier.wait() calls that entered
    completed,    \* history: ticks whose second barrier.wait() returned to main
    faults        \* history: faults the environment has injected (FaultSpec)

    \* ---- one HX711 instance and its device (DriverSpec) ----
VARIABLES
    gain_pulses,  \* cfg.gain_pulses
    pattern,      \* the conversion the device holds, as an unsigned 24-bit value
    edges,        \* device: rising edges of SCK seen in this conversion
    dout,         \* level of the data line (1 high, 0 low)
    sck,          \* level of the clock line
    dpc,          \* position inside read_raw
    polls,        \* wait_ready: is_ready polls that found DOUT high
    ready,        \* what wait_ready returned: "pending", "yes" or "no"
    value,        \* read_raw: the accumulated value
    bitn,         \* read_raw: iterations of the data loop finished
    gainn,        \* read_raw: iterations of the gain loop finished
    result,       \* the value read_raw returned
    data_pulses,  \* history: rising edges issued by the data loop
    extra_pulses, \* history: rising edges issued by _pulse
    bits,         \* history: the bits sampled from DOUT, in order
    other_sck     \* level of the clock line of another HX711 instance

dvars == <<gain_pulses, pattern, edges, dout, sck, dpc, polls, ready, value, bitn,
           gainn, result, data_pulses, extra_pulses, bits, other_sck>>

svars == <<hx_len, rate_hz, duration_s, n_samples, bstate, bcount, stop_flag, lock,
           latest, pc, val, err, tick, clock, now, t_start, next_t, vcopy, ecopy,
           rows, errlog, outfile, file, reads, arrivals, completed, faults>>

vars == <<svars, dvars>>

Free == -1

\* No file has been opened.
NoFile == [open |-> FALSE, lines |-> << >>]

SamplerInit ==
    /\ hx_len = NumWorkers
    /\ rate_hz \in RateSet
    /\ duration_s \in 1 .. MaxDuration
    /\ n_samples = NSamples(rate_hz, duration_s)
    /\ n_samples <= MaxTicks
    /\ bstate = 0
    /\ bcount = 0
    /\ stop_flag = FALSE
    /\ lock = Free
    /\ latest = [v |-> [i \in Workers |-> 0], err |-> [i \in Workers |-> "None"]]
    /\ pc = [t \in Threads |-> IF t = Main THEN "sched" ELSE "loop"]
    /\ val = [i \in Workers |-> 0]
    /\ err = [i \in Workers |-> "None"]
    /\ tick = 0
    /\ clock = 0
    /\ now = clock
    /\ t_start = clock
    /\ next_t = t_start
    /\ vcopy = [i \in Workers |-> 0]
    /\ ecopy = [i \in Workers |-> "None"]
    /\ rows = << >>
    /\ errlog = << >>
    /\ outfile = "unread"
    /\ file = NoFile
    /\ reads = [i \in Workers |-> << >>]
    /\ arrivals = [t \in Threads |-> 0]
    /\ completed = 0
    /\ faults = 0

\* ------------------------------------------------------------------------
\* threading.Barrier as used at lines 118, 128, 146, 167, 168, 191.
\* wait() runs under the barrier's condition lock, so arriving (up to the
\* point where the thread blocks) and leaving are one step each.
\* ------------------------------------------------------------------------

\* Thread t calls barrier.wait() at position `from`.
\*   _enter blocks while the barrier drains; raises when it is broken;
\*   the last party releases the others and returns at once.
BarrierArrive(t, from, blocked, passed, broken) ==
    /\ pc[t] = from
    /\ bstate # 1
    /\ IF bstate < 0
       THEN /\ pc' = [pc EXCEPT ![t] = broken]
            /\ UNCHANGED <<bstate, bcount, arrivals>>
       ELSE /\ arrivals' = [arrivals EXCEPT ![t] = @ + 1]
            /\ IF bcount + 1 = Parties
               THEN /\ bstate' = IF bcount = 0 THEN 0 ELSE 1
                    /\ bcount' = bcount
                    /\ pc' = [pc EXCEPT ![t] = passed]
               ELSE /\ bcount' = bcount + 1
                    /\ bstate' = bstate
                    /\ pc' = [pc EXCEPT ![t] = blocked]

\* Thread t, blocked in barrier.wait(), wakes up: released or broken.
BarrierLeave(t, blocked, passed, broken) ==
    /\ pc[t] = blocked
    /\ bstate # 0
    /\ bcount' = bcount - 1
    /\ bstate' = IF bcount = 1 /\ bstate = 1 THEN 0 ELSE bstate
    /\ pc' = [pc EXCEPT ![t] = IF bstate < 0 THEN broken ELSE passed]
    /\ UNCHANGED arrivals

\* ------------------------------------------------------------------------
\* worker(i), lines 124-148
\* ------------------------------------------------------------------------
WorkerFrame == <<dvars, hx_len, rate_hz, duration_s, n_samples, stop_flag, tick, clock, now,
                 t_start, next_t, vcopy, ecopy, rows, errlog, outfile, file, completed,
                 faults>>

\* Faulty variant: BrokenBarrierError is not caught and ends the thread.
WorkerOnBrokenMutant == "crashed"
\* lines 129-130 and 147-148: except threading.BrokenBarrierError: return
WorkerOnBroken == "done"

\* line 125: while not stop_flag.is_set()
WorkerLoop(i) ==
    /\ pc[i] = "loop"
    /\ pc' = [pc EXCEPT ![i] = IF stop_flag THEN "done" ELSE "waitA"]
    /\ UNCHANGED <<WorkerFrame, bstate, bcount, lock, latest, val, err, reads, arrivals>>

\* lines 127-130: wait for main thread to trigger a read; a worker that
\* barrier.wait() lets through is in read_raw (line 134) next
WorkerArriveA(i) ==
    /\ BarrierArrive(i, "waitA", "inA", "reading", WorkerOnBroken)
    /\ UNCHANGED <<WorkerFrame, lock, latest, val, err, reads>>

WorkerLeaveA(i) ==
    /\ BarrierLeave(i, "inA", "reading", WorkerOnBroken)
    /\ UNCHANGED <<WorkerFrame, lock, latest, val, err, reads>>

\* lines 134-138: read_raw returns or raises; val, err are set
WorkerReadDone(i) ==
    /\ pc[i] = "reading"
    /\ \E o \in ReadOutcomes(i, Len(reads[i]) + 1) :
          /\ val' = [val EXCEPT ![i] = WorkerResult(o).val]
          /\ err' = [err EXCEPT ![i] = WorkerResult(o).err]
          /\ reads' = [reads EXCEPT ![i] = Append(@, o)]
    /\ pc' = [pc EXCEPT ![i] = "lock"]
    /\ UNCHANGED <<WorkerFrame, bstate, bcount, lock, latest, arrivals>>

\* Faulty variant: the lock is kept past the with block.
ReleasedMutant(holder) == holder
\* The lock after the holder left its with block (lines 140-142, 173-175).
Released(holder) == Free

\* line 140: with lock
WorkerLock(i) ==
    /\ pc[i] = "lock"
    /\ lock = Free
    /\ lock' = i
    /\ pc' = [pc EXCEPT ![i] = "write"]
    /\ UNCHANGED <<WorkerFrame, bstate, bcount, latest, val, err, reads, arrivals>>

\* Faulty variant: the slot of the next worker.
SlotOfMutant(i) == (i + 1) % NumWorkers
\* The slot a worker writes (lines 141-142).
SlotOf(i) == i

\* lines 141-142: latest["v"][i] = val; latest["err"][i] = err, and the end
\* of the with block
WorkerWrite(i) ==
    /\ pc[i] = "write"
    /\ latest' = [latest EXCEPT !.v[SlotOf(i)] = val[i], !.err[SlotOf(i)] = err[i]]
    /\ lock' = Released(i)
    /\ pc' = [pc EXCEPT ![i] = "waitB"]
    /\ UNCHANGED <<WorkerFrame, bstate, bcount, val, err, reads, arrivals>>

\* lines 145-148: signal completion
WorkerArriveB(i) ==
    /\ BarrierArrive(i, "waitB", "inB", "loop", WorkerOnBroken)
    /\ UNCHANGED <<WorkerFrame, lock, latest, val, err, reads>>

WorkerLeaveB(i) ==
    /\ BarrierLeave(i, "inB", "loop", WorkerOnBroken)
    /\ UNCHANGED <<WorkerFrame, lock, latest, val, err, reads>>

\* ------------------------------------------------------------------------
\* read_three_hx711, the coordinator, lines 154-205
\* ------------------------------------------------------------------------
MainFrame == <<dvars, hx_len, rate_hz, duration_s, n_samples, val, err, reads, t_start, faults>>
FileFrame == <<outfile, file>>
TimeFrame == <<clock, now, next_t>>

\* A call of time.perf_counter(): not earlier than the call before it.
PerfCounter == clock .. (clock + MaxLag)

\* Faulty variant: the sleep of line 163 is left out.
LaterMutant(a, b) == a
\* lines 162-163: the time at which the coordinator goes on when it read
\* the time a and the tick is due at b: it sleeps b - a when a < b.
Later(a, b) == IF a < b THEN b ELSE a

\* lines 159-163: next iteration of the for loop; now = perf_counter(), and
\* time.sleep(next_t - now) when now < next_t. Past the last iteration the
\* loop is left.
MainSched ==
    /\ UNCHANGED FileFrame
    /\ pc[Main] = "sched"
    /\ IF tick < n_samples
       THEN /\ now' \in PerfCounter
            /\ clock' = Later(now', next_t)
            /\ pc' = [pc EXCEPT ![Main] = "waitA"]
       ELSE /\ pc' = [pc EXCEPT ![Main] = "stop"]
            /\ UNCHANGED <<clock, now>>
    /\ UNCHANGED <<MainFrame, bstate, bcount, stop_flag, lock, latest, tick, next_t,
                   vcopy, ecopy, rows, errlog, arrivals, completed>>

\* Faulty variant: the exception is swallowed and the tick goes on.
MainOnBrokenMutant == "collect"
\* lines 169-170: except threading.BrokenBarrierError: break
MainOnBroken == "stop"

\* line 167: release all workers to read "together";
\* lines 169-170: BrokenBarrierError leaves the loop
MainArriveA ==
    /\ UNCHANGED FileFrame
    /\ UNCHANGED TimeFrame
    /\ BarrierArrive(Main, "waitA", "inA", "waitB", MainOnBroken)
    /\ UNCHANGED <<MainFrame, stop_flag, lock, latest, tick, vcopy, ecopy, rows,
                   errlog, completed>>

MainLeaveA ==
    /\ UNCHANGED FileFrame
    /\ UNCHANGED TimeFrame
    /\ BarrierLeave(Main, "inA", "waitB", MainOnBroken)
    /\ UNCHANGED <<MainFrame, stop_flag, lock, latest, tick, vcopy, ecopy, rows,
                   errlog, completed>>

\* line 168: the second wait
MainArriveB ==
    /\ UNCHANGED FileFrame
    /\ UNCHANGED TimeFrame
    /\ BarrierArrive(Main, "waitB", "inB", "collect", MainOnBroken)
    /\ completed' = IF pc'[Main] = "collect" THEN completed + 1 ELSE completed
    /\ UNCHANGED <<MainFrame, stop_flag, lock, latest, tick, vcopy, ecopy, rows, errlog>>

MainLeaveB ==
    /\ UNCHANGED FileFrame
    /\ UNCHANGED TimeFrame
    /\ BarrierLeave(Main, "inB", "collect", MainOnBroken)
    /\ completed' = IF pc'[Main] = "collect" THEN completed + 1 ELSE completed
    /\ UNCHANGED <<MainFrame, stop_flag, lock, latest, tick, vcopy, ecopy, rows, errlog>>

\* line 173: with lock
MainLock ==
    /\ UNCHANGED FileFrame
    /\ UNCHANGED TimeFrame
    /\ pc[Main] = "collect"
    /\ lock = Free
    /\ lock' = Main
    /\ pc' = [pc EXCEPT ![Main] = "copy"]
    /\ UNCHANGED <<MainFrame, bstate, bcount, stop_flag, latest, tick, vcopy, ecopy,
                   rows, errlog, arrivals, completed>>

\* lines 174-175: v1, v2, v3 = latest["v"]; e1, e2, e3 = latest["err"], and
\* the end of the with block
MainCopy ==
    /\ UNCHANGED FileFrame
    /\ UNCHANGED TimeFrame
    /\ pc[Main] = "copy"
    /\ vcopy' = latest.v
    /\ ecopy' = latest.err
    /\ lock' = Released(Main)
    /\ pc' = [pc EXCEPT ![Main] = "append"]
    /\ UNCHANGED <<MainFrame, bstate, bcount, stop_flag, latest, tick,
                   rows, errlog, arrivals, completed>>

\* Faulty variant: a Sample without its last reading.
SampleOfMutant(t_rel, v) == [t |-> t_rel, raw |-> [i \in 0 .. (NumWorkers - 2) |-> v[i]]]
\* Sample(t=t_rel, raw1=v1, raw2=v2, raw3=v3), line 185
SampleOf(t_rel, v) == [t |-> t_rel, raw |-> v]

\* Faulty variant: only channel 1 is looked at.
ErrsOfMutant(e) == {i \in {0} : e[i] # "None"}
\* lines 178-182: the channels the printed summary reports as failed; the
\* summary is printed when there is one (if e1 or e2 or e3)
ErrsOf(e) == {i \in Workers : e[i] # "None"}

\* Faulty variant: the new Sample is put in front.
AppendRowMutant(rs, r) == <<r>> \o rs
\* line 185: rows.append(Sample(...))
AppendRow(rs, r) == Append(rs, r)

\* Faulty variant: the next tick is due one period after the time read.
NextDueMutant(due, period) == now + period
\* line 187: next_t += period
NextDue(due, period) == due + period

\* lines 178-187: print the errors of the tick if any, append the row,
\* advance the schedule
MainAppend ==
    /\ UNCHANGED FileFrame
    /\ pc[Main] = "append"
    /\ errlog' = Append(errlog, ErrsOf(ecopy))
    /\ \E t \in PerfCounter :
          /\ clock' = t
          /\ rows' = AppendRow(rows, SampleOf(t - t_start, vcopy))
    /\ next_t' = NextDue(next_t, Period(rate_hz))
    /\ now' = now
    /\ tick' = tick + 1
    /\ pc' = [pc EXCEPT ![Main] = "sched"]
    /\ UNCHANGED <<MainFrame, bstate, bcount, stop_flag, lock, latest, vcopy, ecopy,
                   arrivals, completed>>

\* line 189: stop_flag.set()
MainStop ==
    /\ UNCHANGED FileFrame
    /\ UNCHANGED TimeFrame
    /\ pc[Main] = "stop"
    /\ stop_flag' = TRUE
    /\ pc' = [pc EXCEPT ![Main] = "abort"]
    /\ UNCHANGED <<MainFrame, bstate, bcount, lock, latest, tick, vcopy, ecopy,
                   rows, errlog, arrivals, completed>>

\* Faulty variant: the barrier is left as it is.
BarrierAbortMutant(state) == state
\* threading.Barrier.abort(): the barrier is broken, whatever its state
BarrierAbort(state) == -2

\* lines 190-193: barrier.abort()
MainAbort ==
    /\ UNCHANGED FileFrame
    /\ UNCHANGED TimeFrame
    /\ pc[Main] = "abort"
    /\ bstate' = BarrierAbort(bstate)
    /\ pc' = [pc EXCEPT ![Main] = "save"]
    /\ UNCHANGED <<MainFrame, bcount, stop_flag, lock, latest, tick, vcopy, ecopy,
                   rows, errlog, arrivals, completed>>

\* The values the argument outfile takes: None, or a path.
OutfileSet == {"None", "hx711_3ch.csv"}

\* line 201: f"{r.t:.6f}", as the number of millionths of a second the six
\* decimals spell (t is in time units; rounded to nearest).
FormatT(t) == (2 * 1000000 * t + TimeUnits) \div (2 * TimeUnits)

\* Faulty variant: the Samples are written last first.
CsvLinesMutant(rs) ==
    <<(<<"t_s", "raw_1", "raw_2", "raw_3">>)>>
    \o [i \in 1 .. Len(rs) |->
          <<(2 * 1000000 * rs[Len(rs) + 1 - i].t + TimeUnits) \div (2 * TimeUnits),
            rs[Len(rs) + 1 - i].raw[0], rs[Len(rs) + 1 - i].raw[1],
            rs[Len(rs) + 1 - i].raw[2]>>]
\* lines 199-201: the header row, then one row per Sample
CsvLines(rs) ==
    <<(<<"t_s", "raw_1", "raw_2", "raw_3">>)>>
    \o [i \in 1 .. Len(rs) |-> <<FormatT(rs[i].t), rs[i].raw[0], rs[i].raw[1], rs[i].raw[2]>>]

\* Faulty variant: the file is left open.
ClosedMutant(f) == f
\* line 197: the end of the with block closes the file
Closed(f) == [f EXCEPT !.open = FALSE]

\* Faulty variant: the last Row is not returned.
SessionResultMutant == [rows |-> SubSeq(rows, 1, Len(rows) - 1)]
\* line 205: return rows
SessionResult == [rows |-> rows]

\* lines 195-205: save the CSV when outfile is given (the with block opens,
\* writes and closes the file), then return rows. The argument is read
\* here and nowhere before, so it is drawn here.
MainSave ==
    /\ UNCHANGED TimeFrame
    /\ pc[Main] = "save"
    /\ \E out \in OutfileSet :
          /\ outfile' = out
          /\ file' = IF out = "None" THEN NoFile
                     ELSE Closed([open |-> TRUE, lines |-> CsvLines(rows)])
    /\ pc' = [pc EXCEPT ![Main] = "returned"]
    /\ UNCHANGED <<MainFrame, bstate, bcount, stop_flag, lock, latest, tick, vcopy,
                   ecopy, rows, errlog, arrivals, completed>>

Worker(i) ==
    \/ WorkerLoop(i)
    \/ WorkerArriveA(i)
    \/ WorkerLeaveA(i)
    \/ WorkerReadDone(i)
    \/ WorkerLock(i)
    \/ WorkerWrite(i)
    \/ WorkerArriveB(i)
    \/ WorkerLeaveB(i)

Coordinator ==
    \/ MainSched
    \/ MainArriveA
    \/ MainLeaveA
    \/ MainArriveB
    \/ MainLeaveB
    \/ MainLock
    \/ MainCopy
    \/ MainAppend
    \/ MainStop
    \/ MainAbort
    \/ MainSave

\* ------------------------------------------------------------------------
\* The call of read_three_hx711 with a list of any length (CallSpec)
\* ------------------------------------------------------------------------

\* read_three_hx711 has been called with a list of hx_len drivers and has
\* not yet run line 113; no thread is started.
CallInit ==
    /\ hx_len \in 1 .. MaxDrivers
    /\ rate_hz \in RateSet
    /\ duration_s \in 1 .. MaxDuration
    /\ n_samples = NSamples(rate_hz, duration_s)
    /\ n_samples <= MaxTicks
    /\ bstate = 0
    /\ bcount = 0
    /\ stop_flag = FALSE
    /\ lock = Free
    /\ latest = [v |-> [i \in Workers |-> 0], err |-> [i \in Workers |-> "None"]]
    /\ pc = [t \in Threads |-> IF t = Main THEN "call" ELSE "unstarted"]
    /\ val = [i \in Workers |-> 0]
    /\ err = [i \in Workers |-> "None"]
    /\ tick = 0
    /\ clock = 0
    /\ now = clock
    /\ t_start = clock
    /\ next_t = t_start
    /\ vcopy = [i \in Workers |-> 0]
    /\ ecopy = [i \in Workers |-> "None"]
    /\ rows = << >>
    /\ errlog = << >>
    /\ outfile = "unread"
    /\ file = NoFile
    /\ reads = [i \in Workers |-> << >>]
    /\ arrivals = [t \in Threads |-> 0]
    /\ completed = 0
    /\ faults = 0

\* Faulty variant: any list that is not empty is accepted.
ListOkMutant(n) == n >= 1
\* line 113: assert len(hx_list) == 3
ListOk(n) == n = NumWorkers

\* lines 113-157: the assertion on the list; then the barrier for 4
\* parties, the slots, and the three threads are made and started. A list
\* of another length ends the call with AssertionError before any of it.
MainCall ==
    /\ pc[Main] = "call"
    /\ pc' = IF ListOk(hx_len)
             THEN [t \in Threads |-> IF t = Main THEN "sched" ELSE "loop"]
             ELSE [pc EXCEPT ![Main] = "raised"]
    /\ UNCHANGED <<MainFrame, FileFrame, TimeFrame, bstate, bcount, stop_flag, lock,
                   latest, tick, vcopy, ecopy, rows, errlog, arrivals, completed>>

\* ------------------------------------------------------------------------
\* Faults of the environment of read_three_hx711 (FaultSpec)
\* ------------------------------------------------------------------------

\* The coordinator is inside the sampling loop of lines 159-187.
Sampling ==
    pc[Main] \in {"sched", "waitA", "inA", "waitB", "inB", "collect", "copy", "append"}

\* lines 133-138: read_raw raises an exception that is not an Exception
\* (SystemExit, say): `except Exception` lets it through and the thread of
\* worker i ends there, without arriving at the second barrier.wait().
WorkerCrash(i) ==
    /\ faults < MaxFaults
    /\ pc[i] = "reading"
    /\ pc' = [pc EXCEPT ![i] = "crashed"]
    /\ faults' = faults + 1
    /\ UNCHANGED <<dvars, hx_len, rate_hz, duration_s, n_samples, bstate, bcount, stop_flag, lock,
                   latest, val, err, tick, clock, now, t_start, next_t, vcopy, ecopy,
                   rows, errlog, outfile, file, reads, arrivals, completed>>

\* The barrier of line 118 is broken while the session runs, by something
\* other than line 191: the event the except clauses of lines 129, 147 and
\* 169 are written for.
BarrierBreak ==
    /\ faults < MaxFaults
    /\ Sampling
    /\ bstate >= 0
    /\ bstate' = -2
    /\ faults' = faults + 1
    /\ UNCHANGED <<dvars, hx_len, rate_hz, duration_s, n_samples, bcount, stop_flag, lock,
                   latest, pc, val, err, tick, clock, now, t_start, next_t, vcopy, ecopy,
                   rows, errlog, outfile, file, reads, arrivals, completed>>

\* lines 159-187: an exception (KeyboardInterrupt, say) is raised in the
\* coordinator inside the sampling loop. No try/finally encloses the loop:
\* the exception leaves read_three_hx711 at once. Inside barrier.wait() the
\* finally clause of wait() takes the thread out of the barrier; inside the
\* with block the lock is released. The argument outfile is drawn here, as
\* the call ends here.
MainInterrupt ==
    /\ faults < MaxFaults
    /\ Sampling
    /\ pc' = [pc EXCEPT ![Main] = "raised"]
    /\ IF pc[Main] \in {"inA", "inB"}
       THEN /\ bcount' = bcount - 1
            /\ bstate' = IF bcount = 1 /\ bstate = 1 THEN 0 ELSE bstate
       ELSE UNCHANGED <<bcount, bstate>>
    /\ lock' = IF lock = Main THEN Free ELSE lock
    /\ outfile' \in OutfileSet
    /\ faults' = faults + 1
    /\ UNCHANGED <<dvars, hx_len, rate_hz, duration_s, n_samples, stop_flag,
                   latest, val, err, tick, clock, now, t_start, next_t, vcopy, ecopy,
                   rows, errlog, file, reads, arrivals, completed>>

\* ------------------------------------------------------------------------
\* class HX711, lines 34-88, and the device on its two lines
\* ------------------------------------------------------------------------

\* gain_pulses: 1, 2 or 3 (lines 27-31)
GainSelectors == 1 .. 3

\* The conversions the device is made to hold: around 0, around the sign
\* change, around all ones, and three patterns of mixed bits.
PatternSet ==
    (0 .. PatternSpread)
    \cup ((Pow2(DataBits - 1) - 1 - PatternSpread) .. (Pow2(DataBits - 1) + PatternSpread))
    \cup ((Pow2(DataBits) - 1 - PatternSpread) .. (Pow2(DataBits) - 1))
    \cup {11184810, 5592405, 1193046}

\* Bit k (0 = least significant) of an unsigned value.
BitOf(u, k) == (u \div Pow2(k)) % 2

\* The device: DOUT after the e-th rising edge of SCK in a conversion. It
\* shifts the conversion out MSB first and returns DOUT high after the 24
\* data bits.
DeviceDout(u, e) == IF e <= DataBits THEN BitOf(u, DataBits - e) ELSE 1

\* Faulty variant: (value | bit) << 1.
ShiftInMutant(v, bit) == 2 * (v + bit)
\* line 76: value = (value << 1) | bit
ShiftIn(v, bit) == 2 * v + bit

\* Faulty variant: range(self.cfg.gain_pulses - 1).
GainRangeMutant(g) == g - 1
\* line 82: range(self.cfg.gain_pulses)
GainRange(g) == g

\* Faulty variant: the result of wait_ready is ignored.
AfterWaitReadyMutant(ok) == "sck_on"
\* lines 66-67: if not self.wait_ready(...): raise TimeoutError
AfterWaitReady(ok) == IF ok THEN "sck_on" ELSE "raised"

\* Faulty variant: on() leaves the line as it is.
SckOnMutant(level) == level
\* lines 57 and 72: self.sck.on()
SckOn(level) == 1

\* Faulty variant: off() leaves the line as it is.
SckOffMutant(level) == level
\* lines 59 and 78: self.sck.off()
SckOff(level) == 0

\* HX711.__init__ (lines 35-42) has run and read_raw has been called:
\* SCK low (initial_value=False), the device ready or not yet.
DriverInit ==
    /\ gain_pulses \in GainSelectors
    /\ pattern \in PatternSet
    /\ edges = 0
    /\ dout \in {0, 1}
    /\ sck = 0
    /\ dpc = "wait_ready"
    /\ polls = 0
    /\ ready = "pending"
    /\ value = 0
    /\ bitn = 0
    /\ gainn = 0
    /\ result = 0
    /\ data_pulses = 0
    /\ extra_pulses = 0
    /\ bits = << >>
    /\ other_sck = 0

\* The device finishes its conversion: DOUT goes low.
DeviceReady ==
    /\ dpc = "wait_ready"
    /\ dout = 1
    /\ edges = 0
    /\ dout' = 0
    /\ UNCHANGED <<svars, other_sck, gain_pulses, pattern, edges, sck, dpc, polls, ready, value,
                   bitn, gainn, result, data_pulses, extra_pulses, bits>>

\* Faulty variant: ready when the data line reads high.
IsReadyMutant(level) == level = 1
\* is_ready, lines 44-46: return self.dout.value == 0
IsReady(level) == level = 0

\* wait_ready, lines 50-53: the timeout has not elapsed; is_ready is polled
\* (DOUT low means ready), else sleep and poll again.
DrvPoll ==
    /\ dpc = "wait_ready"
    /\ polls < MaxPolls
    /\ IF IsReady(dout)
       THEN /\ ready' = "yes"
            /\ dpc' = AfterWaitReady(TRUE)
            /\ polls' = polls
       ELSE /\ polls' = polls + 1
            /\ UNCHANGED <<ready, dpc>>
    /\ UNCHANGED <<svars, other_sck, gain_pulses, pattern, edges, dout, sck, value, bitn, gainn,
                   result, data_pulses, extra_pulses, bits>>

\* wait_ready, lines 50 and 54: the timeout has elapsed, return False;
\* read_raw raises TimeoutError (lines 66-67).
DrvTimeout ==
    /\ dpc = "wait_ready"
    /\ ready' = "no"
    /\ dpc' = AfterWaitReady(FALSE)
    /\ UNCHANGED <<svars, other_sck, gain_pulses, pattern, edges, dout, sck, polls, value, bitn,
                   gainn, result, data_pulses, extra_pulses, bits>>

\* line 72: self.sck.on() in the data loop; the device shifts the next bit out
DrvClockHigh ==
    /\ dpc = "sck_on"
    /\ sck' = SckOn(sck)
    /\ edges' = IF sck = 0 THEN edges + 1 ELSE edges
    /\ dout' = IF sck = 0 THEN DeviceDout(pattern, edges + 1) ELSE dout
    /\ data_pulses' = IF sck = 0 THEN data_pulses + 1 ELSE data_pulses
    /\ dpc' = "sample"
    /\ UNCHANGED <<svars, other_sck, gain_pulses, pattern, polls, ready, value, bitn, gainn,
                   result, extra_pulses, bits>>

\* lines 75-76: bit = 1 if self.dout.value else 0; shift it in
DrvSample ==
    /\ dpc = "sample"
    /\ value' = ShiftIn(value, dout)
    /\ bits' = Append(bits, dout)
    /\ dpc' = "sck_off"
    /\ UNCHANGED <<svars, other_sck, gain_pulses, pattern, edges, dout, sck, polls, ready, bitn,
                   gainn, result, data_pulses, extra_pulses>>

\* line 78: self.sck.off(), and the loop test of line 71
DrvClockLow ==
    /\ dpc = "sck_off"
    /\ sck' = SckOff(sck)
    /\ bitn' = bitn + 1
    /\ dpc' = IF bitn + 1 < DataBits THEN "sck_on"
              ELSE IF 0 < GainRange(gain_pulses) THEN "gain_on" ELSE "decode"
    /\ UNCHANGED <<svars, other_sck, gain_pulses, pattern, edges, dout, polls, ready, value,
                   gainn, result, data_pulses, extra_pulses, bits>>

\* _pulse, line 57: self.sck.on()
DrvGainHigh ==
    /\ dpc = "gain_on"
    /\ sck' = SckOn(sck)
    /\ edges' = IF sck = 0 THEN edges + 1 ELSE edges
    /\ dout' = IF sck = 0 THEN DeviceDout(pattern, edges + 1) ELSE dout
    /\ extra_pulses' = IF sck = 0 THEN extra_pulses + 1 ELSE extra_pulses
    /\ dpc' = "gain_off"
    /\ UNCHANGED <<svars, other_sck, gain_pulses, pattern, polls, ready, value, bitn, gainn,
                   result, data_pulses, bits>>

\* _pulse, line 59: self.sck.off(), and the loop test of line 82
DrvGainLow ==
    /\ dpc = "gain_off"
    /\ sck' = SckOff(sck)
    /\ gainn' = gainn + 1
    /\ dpc' = IF gainn + 1 < GainRange(gain_pulses) THEN "gain_on" ELSE "decode"
    /\ UNCHANGED <<svars, other_sck, gain_pulses, pattern, edges, dout, polls, ready, value,
                   bitn, result, data_pulses, extra_pulses, bits>>

\* lines 85-88: convert and return
DrvReturn ==
    /\ dpc = "decode"
    /\ result' = Decode(value)
    /\ dpc' = "returned"
    /\ UNCHANGED <<svars, other_sck, gain_pulses, pattern, edges, dout, sck, polls, ready, value,
                   bitn, gainn, data_pulses, extra_pulses, bits>>

\* Another HX711 instance, on pins of its own, raises or drops its clock
\* line (lines 57, 59, 72, 78 of its read_raw) while this one reads.
OtherDriverClock ==
    /\ dpc # "idle"
    /\ other_sck' = 1 - other_sck
    /\ UNCHANGED <<svars, gain_pulses, pattern, edges, dout, sck, dpc, polls, ready,
                   value, bitn, gainn, result, data_pulses, extra_pulses, bits>>

\* The driver while the sampler is modelled: constructed, no read in progress.
DriverIdle ==
    /\ gain_pulses = 1
    /\ pattern = 0
    /\ edges = 0
    /\ dout = 1
    /\ sck = 0
    /\ dpc = "idle"
    /\ polls = 0
    /\ ready = "pending"
    /\ value = 0
    /\ bitn = 0
    /\ gainn = 0
    /\ result = 0
    /\ data_pulses = 0
    /\ extra_pulses = 0
    /\ bits = << >>
    /\ other_sck = 0

\* The sampler while one read_raw call is modelled: not started.
SamplerIdle ==
    /\ SamplerInit
    /\ rate_hz = 1
    /\ duration_s = 1

\* ------------------------------------------------------------------------
\* Specifications
\* ------------------------------------------------------------------------
Init == SamplerInit /\ DriverIdle

Next ==
    \/ \E i \in Workers : Worker(i)
    \/ Coordinator

Spec == Init /\ [][Next]_vars

\* The sampler under a fair scheduler: a worker thread that can take a step
\* takes one in the end (the threads are operating-system threads, and
\* read_raw returns or times out).
FairSpec == Spec /\ \A i \in Workers : WF_vars(Worker(i))

\* The same with a coordinator that takes its steps too: the main thread is
\* scheduled like the others, time.sleep() returns, and barrier.wait()
\* returns once the barrier lets the thread go.
LiveSpec == FairSpec /\ WF_vars(Coordinator)

\* The sampler with at most MaxFaults faults of its environment.
FaultNext ==
    \/ \E i \in Workers : Worker(i)
    \/ Coordinator
    \/ \E i \in Workers : WorkerCrash(i)
    \/ BarrierBreak
    \/ MainInterrupt

FaultSpec == Init /\ [][FaultNext]_vars

\* The sampler from its call on, with lists of 1 to MaxDrivers drivers.
CallSpecInit == CallInit /\ DriverIdle

CallNext ==
    \/ MainCall
    \/ \E i \in Workers : Worker(i)
    \/ Coordinator

CallSpec == CallSpecInit /\ [][CallNext]_vars

DriverNext ==
    \/ DeviceReady
    \/ DrvPoll
    \/ DrvTimeout
    \/ DrvClockHigh
    \/ DrvSample
    \/ DrvClockLow
    \/ DrvGainHigh
    \/ DrvGainLow
    \/ DrvReturn
    \/ OtherDriverClock

DriverSpecInit == SamplerIdle /\ DriverInit

DriverSpec == DriverSpecInit /\ [][DriverNext]_vars

\* ------------------------------------------------------------------------
\* Properties of the sampler (Spec)
\* ------------------------------------------------------------------------

\* Worker i is inside read_raw, or copying the result of it into its slot.
Busy(i) == pc[i] \in {"reading", "lock", "write"}

\* The tick (0, 1, ...) of the read worker i is making or has just made.
WorkerTick(i) == IF pc[i] = "reading" THEN Len(reads[i]) ELSE Len(reads[i]) - 1

\* The reading a Row holds for a read_raw call that did o.
ReadingOf(o) == IF o.raised THEN 0 ELSE o.value

\* The coordinator is between the return of its second barrier.wait() and
\* the append of the Row of that tick.
Collecting == pc[Main] \in {"collect", "copy", "append"}

\* C1: a worker is inside read_raw for tick i only when the coordinator and
\* every worker have arrived at the first rendezvous of tick i (their
\* (2i+1)-th barrier.wait()); the coordinator is then in tick i, and every
\* other worker that is reading or writing its slot does so for tick i too.
C1_ReadsStartTogether ==
    \A k \in Workers :
        pc[k] = "reading" =>
            /\ \A t \in Threads : arrivals[t] >= 2 * WorkerTick(k) + 1
            /\ tick = WorkerTick(k)
            /\ pc[Main] \in {"inA", "waitB", "inB"}
            /\ \A j \in Workers : Busy(j) => WorkerTick(j) = WorkerTick(k)

\* Second tick: two workers are inside read_raw at once while the third is
\* already writing its slot.
C1_Witness ==
    /\ tick = 1
    /\ pc[0] = "reading"
    /\ pc[1] = "reading"
    /\ pc[2] = "write"

\* C2: while the coordinator collects tick i, every worker has made its
\* read of tick i and its slot holds the outcome of that read, and no worker
\* is reading or writing; and every reading of every Row is the outcome of
\* the read_raw call of that channel in that tick.
C2_RowIsThisTicksReads ==
    /\ Collecting =>
          \A k \in Workers :
              /\ ~Busy(k)
              /\ Len(reads[k]) = tick + 1
              /\ latest.v[k] = ReadingOf(reads[k][tick + 1])
              /\ (latest.err[k] # "None") = reads[k][tick + 1].raised
    /\ \A i \in 1 .. Len(rows) : \A k \in Workers :
          /\ i <= Len(reads[k])
          /\ rows[i].raw[k] = ReadingOf(reads[k][i])

\* Two Rows whose readings differ on every channel: a value left over from
\* the first tick would show in the second Row.
C2_Witness ==
    /\ pc[Main] = "returned"
    /\ Len(rows) = 2
    /\ \A k \in Workers :
          /\ ~reads[k][1].raised
          /\ ~reads[k][2].raised
          /\ rows[1].raw[k] # rows[2].raw[k]

\* C3 as stated: in every reachable state the number of Rows equals the
\* number of ticks whose two rendezvous phases both completed, and every
\* Row holds one reading per channel.
C3_Original ==
    /\ Len(rows) = completed
    /\ \A i \in 1 .. Len(rows) : DOMAIN rows[i].raw = Workers

\* C3 as amended: the number of Rows equals the number of ticks whose two
\* rendezvous phases both completed, except while the coordinator is
\* between the return of the second rendezvous and the append (lines
\* 172-185), where the Row of the tick just completed is the one not yet
\* appended; every Row holds one reading per channel; a tick whose
\* rendezvous did not complete adds no Row.
C3_OneRowPerCompletedTick ==
    /\ Len(rows) = IF Collecting THEN completed - 1 ELSE completed
    /\ Len(rows) = tick
    /\ \A i \in 1 .. Len(rows) : DOMAIN rows[i].raw = Workers

\* The session has returned with two Rows after two completed ticks.
C3_Witness ==
    /\ pc[Main] = "returned"
    /\ completed = 2
    /\ Len(rows) = 2

\* C4: once read_three_hx711 is past its loop, it has run exactly
\* floor(duration_s * rate_hz) ticks and holds exactly that many Rows,
\* whatever reads timed out.
C4_ExactlyNSamplesRows ==
    pc[Main] \in {"stop", "abort", "save", "returned"} =>
        /\ Len(rows) = (duration_s * rate_hz) \div TimeUnits
        /\ completed = (duration_s * rate_hz) \div TimeUnits
        /\ \A k \in Workers : Len(reads[k]) = (duration_s * rate_hz) \div TimeUnits

\* A returned session of two ticks in which channel 2 timed out on every
\* tick.
C4_Witness ==
    /\ pc[Main] = "returned"
    /\ Len(rows) = 2
    /\ reads[1][1].raised
    /\ reads[1][2].raised

\* C5: if channel k's read raised in tick i, the other channels' readings
\* in Row i are what their read_raw calls returned in tick i, and all
\* channels' readings in the later Rows are what their read_raw calls of
\* those ticks did.
C5_FaultIsolation ==
    \A k \in Workers : \A i \in 1 .. Len(rows) :
        reads[k][i].raised =>
            /\ \A j \in Workers \ {k} : rows[i].raw[j] = ReadingOf(reads[j][i])
            /\ \A i2 \in (i + 1) .. Len(rows) : \A j \in Workers :
                  rows[i2].raw[j] = ReadingOf(reads[j][i2])

\* Channel 2 timed out in the first tick only; channels 1 and 3 read their
\* conversions in it, and all three read theirs in the second tick.
C5_Witness ==
    /\ Len(rows) = 2
    /\ reads[1][1].raised
    /\ ~reads[0][1].raised /\ rows[1].raw[0] = Decode(ScriptedPattern(0, 1))
    /\ ~reads[2][1].raised /\ rows[1].raw[2] = Decode(ScriptedPattern(2, 1))
    /\ \A j \in Workers :
          ~reads[j][2].raised /\ rows[2].raw[j] = Decode(ScriptedPattern(j, 2))

\* The error a Row records for channel k: a Sample has the fields t, raw1,
\* raw2, raw3 and no other.
RowErrorOf(row, k) == IF "err" \in DOMAIN row THEN row.err[k] ELSE "None"

\* C6 as stated: when a channel's read fails in a tick, the Row of that tick
\* is emitted and records an explicit error for that channel next to the
\* sentinel 0.
C6_Original ==
    \A k \in Workers : \A i \in 1 .. Len(rows) :
        reads[k][i].raised =>
            /\ rows[i].raw[k] = 0
            /\ RowErrorOf(rows[i], k) # "None"

\* C6 as amended: when a channel's read fails in a tick, the Row of that
\* tick is still emitted and holds the sentinel 0 for that channel; the
\* explicit error is recorded in the channel's result slot and reported in
\* the printed per-tick summary, not in the Row.
C6_SentinelAndReportedError ==
    /\ Len(errlog) = Len(rows)
    /\ \A k \in Workers : \A i \in 1 .. Len(reads[k]) :
          reads[k][i].raised =>
              /\ (i = tick + 1 /\ pc[Main] \in {"collect", "copy"})
                    => latest.err[k] = "TimeoutError"
              /\ (i = tick + 1 /\ pc[Main] = "append")
                    => (vcopy[k] = 0 /\ ecopy[k] = "TimeoutError")
              /\ i <= tick => (rows[i].raw[k] = 0 /\ k \in errlog[i])
    /\ pc[Main] = "returned" => Len(rows) = n_samples

\* A returned session whose first Row holds the sentinel for channel 2,
\* which timed out, and conversions for the others.
C6_Witness ==
    /\ pc[Main] = "returned"
    /\ Len(rows) = 2
    /\ reads[1][1].raised
    /\ errlog[1] = {1}
    /\ rows[1].raw[1] = 0
    /\ rows[1].raw[0] # 0

\* ------------------------------------------------------------------------
\* Properties of HX711.read_raw (DriverSpec)
\* ------------------------------------------------------------------------

\* C7: a read_raw that returns has issued exactly 24 rising edges from its
\* data loop and then exactly gain_pulses (1, 2 or 3) from _pulse, 24 +
\* gain_pulses in all; no _pulse edge comes before the 24th data edge.
C7_PulseCount ==
    /\ data_pulses <= 24
    /\ extra_pulses <= gain_pulses
    /\ extra_pulses > 0 => data_pulses = 24
    /\ data_pulses + extra_pulses = edges
    /\ dpc \in {"decode", "returned"} =>
          /\ ready = "yes"
          /\ data_pulses = 24
          /\ extra_pulses = gain_pulses
          /\ data_pulses + extra_pulses = 24 + gain_pulses
          /\ sck = 0

\* A returned read with gain_pulses = 3: 27 rising edges.
C7_Witness ==
    /\ dpc = "returned"
    /\ gain_pulses = 3
    /\ edges = 27

\* C8: when wait_ready returned False, read_raw has raised without any
\* clock activity: no rising edge was issued and SCK is low as it was when
\* read_raw was called.
C8_TimeoutBeforeClock ==
    ready = "no" =>
        /\ dpc = "raised"
        /\ data_pulses = 0
        /\ extra_pulses = 0
        /\ edges = 0
        /\ sck = 0
        /\ bits = << >>

\* wait_ready polled a device that stayed not ready, then timed out.
C8_Witness ==
    /\ dpc = "raised"
    /\ ready = "no"
    /\ polls = MaxPolls
    /\ dout = 1

\* C9: read_raw returns the 24-bit two's complement reading of the pattern
\* u the device shifted out: u when u < 2^23 (bit 23 clear), u - 2^24
\* otherwise; the result lies in [-8388608, 8388607]; 0x000000 gives 0,
\* 0x7FFFFF gives 8388607, 0x800000 gives -8388608, 0xFFFFFF gives -1.
C9_TwosComplement ==
    dpc = "returned" =>
        /\ pattern < 8388608 => result = pattern
        /\ pattern >= 8388608 => result = pattern - 16777216
        /\ result \in -8388608 .. 8388607
        /\ pattern = 0 => result = 0
        /\ pattern = 8388607 => result = 8388607
        /\ pattern = 8388608 => result = -8388608
        /\ pattern = 16777215 => result = -1

\* The device held 0x800000 and read_raw returned -8388608.
C9_Witness ==
    /\ dpc = "returned"
    /\ pattern = 8388608
    /\ result = -8388608

\* The test-only inverse encoder: a signed value's 24-bit pattern.
Encode(v) == v % 16777216

\* The signed values whose encodings the device is made to hold.
SignedSet ==
    ((-8388608) .. (-8388608 + PatternSpread))
    \cup ((-1 - PatternSpread) .. PatternSpread)
    \cup ((8388607 - PatternSpread) .. 8388607)
    \cup {-5592406, 5592405, 1193046}

\* C10: when the device holds the encoding of a signed value v of
\* [-8388608, 8388607], read_raw returns v; every pattern the device holds is
\* such an encoding, and encoding the returned value gives the pattern back.
C10_RoundTrip ==
    dpc = "returned" =>
        /\ \A v \in SignedSet : Encode(v) = pattern => result = v
        /\ \E v \in SignedSet : Encode(v) = pattern
        /\ Encode(result) = pattern

\* The device held the encoding of -8388607 and read_raw returned it.
C10_Witness ==
    /\ dpc = "returned"
    /\ pattern = Encode(-8388607)
    /\ result = -8388607
    /\ PatternSet = {Encode(v) : v \in SignedSet}

\* The unsigned value of a sequence of bits, the first the most significant.
RECURSIVE MsbFirst(_)
MsbFirst(b) ==
    IF b = << >> THEN 0
    ELSE Head(b) * Pow2(Len(b) - 1) + MsbFirst(Tail(b))

\* The driver is past the 24 data pulses of its read.
AfterDataBits == dpc \in {"gain_on", "gain_off", "decode", "returned"}

\* What holds of the samples taken so far in every state of a read.
C11_Sampled ==
    /\ data_pulses = Len(bits) + (IF dpc = "sample" THEN 1 ELSE 0)
    /\ dpc = "sample" => sck = 1
    /\ AfterDataBits => Len(bits) = DataBits
    /\ Len(bits) <= DataBits
    /\ \A k \in 0 .. Len(bits) - 1 : bits[k + 1] = BitOf(pattern, DataBits - 1 - k)
    /\ value = MsbFirst(bits)
    /\ Len(bits) = DataBits => \A k \in 0 .. DataBits - 1 : BitOf(value, DataBits - 1 - k) = bits[k + 1]

\* What holds of every step that takes a sample.
C11_SampleStep ==
    bits' # bits =>
        /\ dpc = "sample"
        /\ sck = 1 /\ sck' = 1
        /\ bits' = Append(bits, dout)
        /\ data_pulses' = data_pulses
        /\ extra_pulses = 0 /\ extra_pulses' = 0

\* C11: DOUT is sampled exactly once per data pulse, while SCK is high
\* (after line 72 raised it and before line 78 drops it), and never during a
\* gain pulse; the k-th sampled bit (k = 0..23) is bit 23-k of the pattern
\* the device shifts out and of the assembled value, which is the sum of
\* bit_k * 2^(23-k).
C11_MsbFirstOncePerPulse == []C11_Sampled /\ [][C11_SampleStep]_vars

\* A read of 0xAAAAAA has returned: 24 samples, alternating, the first a 1.
C11_Witness ==
    /\ dpc = "returned"
    /\ pattern = 11184810
    /\ Len(bits) = DataBits
    /\ bits[1] = 1 /\ bits[2] = 0 /\ bits[DataBits] = 0
    /\ value = 11184810
    /\ extra_pulses = gain_pulses

\* ------------------------------------------------------------------------
\* Properties of the schedule and of the shutdown (Spec, FairSpec, FaultSpec)
\* ------------------------------------------------------------------------

\* The time at which tick i (0, 1, ...) is due: t0 + i / rate_hz.
DueTime(i) == t_start + i * Period(rate_hz)

\* The coordinator is past the wait of lines 161-163 of the current tick.
InTick ==
    pc[Main] \in {"waitA", "inA", "waitB", "inB", "collect", "copy", "append"}

\* C12: the time the next tick is due is t0 + i / rate_hz, i the index of
\* that tick, in every state: whatever the times the coordinator read, and
\* however late the ticks before it ended. The period is 1 / rate_hz exactly.
C12_DueTimesAdditive ==
    /\ Period(rate_hz) * rate_hz = TimeUnits
    /\ next_t = DueTime(tick)
    /\ \A i \in 1 .. Len(rows) : DueTime(i) = DueTime(i - 1) + Period(rate_hz)

\* The first tick ended a whole period after the second tick was due, and
\* the third tick is due two periods after the start all the same.
C12_Witness ==
    /\ tick = 2
    /\ Len(rows) = 2
    /\ rows[1].t = DueTime(1) + Period(rate_hz)
    /\ next_t = t_start + 2 * Period(rate_hz)

\* C13: while the coordinator is in tick i (from its arrival at the first
\* rendezvous on) the time is not before the due time of tick i; it arrives
\* at the rendezvous at the time it read when that was not before the due
\* time (no sleep), and at the due time otherwise; a late tick is run like
\* any other, and the session returns all n_samples Rows.
C13_NeverEarlyNoSleepWhenLate ==
    /\ InTick => clock >= DueTime(tick)
    /\ pc[Main] = "waitA" =>
          /\ now >= DueTime(tick) => clock = now
          /\ now < DueTime(tick) => clock = DueTime(tick)
    /\ pc[Main] \notin {"raised", "crashed"}
    /\ pc[Main] = "returned" => Len(rows) = n_samples /\ tick = n_samples

\* The second tick was overdue when the coordinator read the time, and the
\* coordinator is at the rendezvous at that very time.
C13_Witness ==
    /\ pc[Main] = "waitA"
    /\ tick = 1
    /\ now > DueTime(1)
    /\ clock = now

\* The coordinator has set the stop signal and called barrier.abort()
\* (lines 189-193).
Aborted == pc[Main] \in {"save", "returned"}

\* After the abort no worker that has not ended is blocked.
C14_NoWorkerBlocked ==
    Aborted => \A k \in Workers : pc[k] # "done" => ENABLED Worker(k)

\* C14: after the stop signal and the abort of the barrier no worker stays
\* blocked, and under a fair scheduler every worker ends: the one about to
\* test the stop flag, the one about to call barrier.wait(), and the one
\* waiting inside it.
C14_WorkersTerminate ==
    /\ []C14_NoWorkerBlocked
    /\ Aborted ~> (\A k \in Workers : pc[k] = "done")

\* Right after the abort: one worker about to test the flag, one about to
\* enter the rendezvous, one waiting in it.
C14_Witness ==
    /\ pc[Main] = "save"
    /\ Aborted
    /\ pc[0] = "loop"
    /\ pc[1] = "waitA"
    /\ pc[2] = "inA"

\* C15 (as stated): when read_three_hx711 has returned every worker thread
\* has ended, the output is written and closed, and no collected Row is lost.
C15_Original ==
    pc[Main] = "returned" =>
        /\ \A k \in Workers : pc[k] = "done"
        /\ outfile # "None" => file = [open |-> FALSE, lines |-> CsvLines(rows)]
        /\ Len(rows) = completed

\* What holds of every step of a session, for every worker k.
C16_Step ==
    \A k \in Workers :
        /\ (pc[k] = "reading" /\ pc'[k] # "reading") =>
              /\ pc'[k] = "lock"
              /\ Len(reads'[k]) = Len(reads[k]) + 1
        /\ Busy(k) => pc'[k] # "done"
        /\ (pc[k] # "done" /\ pc'[k] = "done") =>
              /\ stop_flag
              /\ pc[k] \in {"loop", "waitA", "inA", "waitB", "inB"}
              /\ pc[k] # "loop" => bstate < 0
        /\ (pc[k] = "loop" /\ pc'[k] # "loop") =>
              pc'[k] = (IF stop_flag THEN "done" ELSE "waitA")
        /\ stop_flag' => pc'[k] \notin {"reading", "lock", "write"}

\* C16: a worker ends only from between two tick cycles (at the test of the
\* stop flag, or at a barrier.wait() of an aborted barrier), never from
\* inside a read; a read_raw call that started is left only by its own
\* return or timeout; and from the moment the stop signal is set no worker
\* is inside read_raw or writing its slot.
C16_StopOnlyBetweenTicks == [][C16_Step]_vars

\* The stop signal is set after two ticks: one worker has ended, one is
\* still inside the second rendezvous of the last tick.
C16_Witness ==
    /\ stop_flag
    /\ pc[0] = "done"
    /\ pc[1] = "inB"
    /\ \A k \in Workers : Len(reads[k]) = 2

\* C17: no thread ends by an exception; the barrier is broken only by the
\* abort of line 191, after the stop signal, when all n_samples ticks are
\* done; that abort raises nothing and the session goes on to return all
\* n_samples Rows.
C17_StopAbortIsSilent ==
    /\ \A t \in Threads : pc[t] \notin {"crashed", "raised"}
    /\ bstate < 0 =>
          /\ stop_flag
          /\ pc[Main] \in {"save", "returned"}
    /\ pc[Main] \in {"save", "returned"} =>
          /\ bstate < 0
          /\ tick = n_samples
          /\ Len(rows) = n_samples
          /\ completed = n_samples

\* The session returned both Rows, and a worker that had entered the
\* barrier for a third tick was woken by the abort and has ended.
C17_Witness ==
    /\ pc[Main] = "returned"
    /\ n_samples = 2
    /\ Len(rows) = 2
    /\ \E k \in Workers : pc[k] = "done" /\ arrivals[k] = 2 * n_samples + 1

\* The coordinator left the sampling loop before its last iteration: by
\* the break of line 170.
Fatal == pc[Main] \in {"stop", "abort", "save", "returned"} /\ tick < n_samples

\* C18: a coordinator that finds the barrier broken in a barrier.wait() of
\* tick i leaves the loop there; from then on it calls barrier.wait() no
\* more, the tick index and the Rows do not change, there are exactly i
\* Rows (none for tick i or later), each the readings of its tick, and
\* they are what the CSV file gets.
C18_State ==
    Fatal =>
        /\ Len(rows) = tick
        /\ \A i \in 1 .. Len(rows) : \A k \in Workers :
              rows[i].raw[k] = ReadingOf(reads[k][i])
        /\ pc[Main] = "returned" /\ outfile # "None" => file.lines = CsvLines(rows)

C18_Step ==
    /\ (pc[Main] \in {"waitA", "inA", "waitB", "inB"} /\ bstate < 0
            /\ pc'[Main] \notin {pc[Main], "raised"}) =>
          /\ pc'[Main] = "stop"
          /\ tick < n_samples
    /\ Fatal =>
          /\ rows' = rows
          /\ tick' = tick
          /\ arrivals'[Main] = arrivals[Main]
          /\ completed' = completed

C18_FatalAbortStopsSampling == []C18_State /\ [][C18_Step]_vars

\* The barrier broke in the second tick of two: the session returned with
\* the Row of the first tick only.
C18_Witness ==
    /\ pc[Main] = "returned"
    /\ faults = 1
    /\ n_samples = 2
    /\ tick = 1
    /\ Len(rows) = 1
    /\ outfile = "hx711_3ch.csv"
    /\ Len(file.lines) = 2

\* C19 (as stated): when a worker thread has ended abnormally the session
\* does not hang: it has returned, or some thread can take a step.
C19_Original ==
    (\E k \in Workers : pc[k] = "crashed") =>
        \/ pc[Main] = "returned"
        \/ ENABLED Next

\* C20 (as stated): however a session with an output path ends (by return
\* or by an exception raised in the sampling loop), every Row collected is
\* in the file, after the header and in order, and the file is closed.
C20_Original ==
    (pc[Main] \in {"returned", "raised"} /\ outfile = "hx711_3ch.csv") =>
        /\ ~file.open
        /\ \A i \in 1 .. Len(rows) :
              /\ i + 1 <= Len(file.lines)
              /\ file.lines[i + 1] = CsvLines(rows)[i + 1]

\* ------------------------------------------------------------------------
\* Properties of the shared state, the result and the file
\* ------------------------------------------------------------------------

\* Slot j of latest (value and error) is not the same after the step.
SlotChanged(j) == latest'.v[j] # latest.v[j] \/ latest'.err[j] # latest.err[j]

\* What holds of every step of a session with respect to the slots.
C21_Step ==
    /\ \A j \in Workers :
          SlotChanged(j) =>
              /\ pc[j] = "write" /\ pc'[j] = "waitB"
              /\ latest'.v[j] = val[j]
              /\ latest'.err[j] = err[j]
              /\ \A k \in Workers \ {j} : ~SlotChanged(k)
    /\ pc'[Main] # pc[Main] => latest' = latest
    /\ DOMAIN latest' = {"v", "err"}
    /\ DOMAIN latest'.v = Workers /\ DOMAIN latest'.err = Workers

\* C21: slot k of latest (value and error) is changed only by the step in
\* which worker k leaves its with block, which stores its own val and err
\* there and changes no other slot; no step of the coordinator changes
\* latest.
C21_SlotOwnership == [][C21_Step]_vars

\* First tick: the second worker has stored a conversion in its slot and
\* the two other slots are as line 121 made them.
C21_Witness ==
    /\ tick = 0
    /\ pc[1] = "waitB"
    /\ latest.v[1] = Decode(ScriptedPattern(1, 1))
    /\ latest.v[0] = 0 /\ latest.v[2] = 0
    /\ pc[0] = "reading" /\ pc[2] = "lock"

\* The thread that holds the lock can leave its with block.
HolderCanRelease ==
    /\ lock \in Workers => ENABLED WorkerWrite(lock)
    /\ lock = Main => ENABLED MainCopy

\* C22: a worker holds the lock exactly while it is at lines 141-142, the
\* coordinator exactly while it is at lines 174-175: no thread that is in
\* barrier.wait(), in read_raw, or in the wait of lines 161-163 holds it;
\* and the holder can always go on and release it, so that no thread waits
\* for the lock forever.
C22_LockOnlyForCopy ==
    /\ lock \in {Free} \cup Threads
    /\ \A k \in Workers : (lock = k) <=> (pc[k] = "write")
    /\ (lock = Main) <=> (pc[Main] = "copy")
    /\ \A t \in Threads :
          pc[t] \in {"sched", "waitA", "inA", "reading", "waitB", "inB"} => lock # t
    /\ HolderCanRelease

\* One worker holds the lock, one waits for it, one is inside read_raw.
C22_Witness ==
    /\ lock = 0
    /\ pc[0] = "write"
    /\ pc[1] = "lock"
    /\ pc[2] = "reading"

\* The worker threads that have been started.
Started == {k \in Workers : pc[k] # "unstarted"}

\* C23 (as stated): called with a list of N >= 1 drivers the sampler starts
\* N workers, its barrier has N + 1 parties, its Rows have N readings, and
\* the call does not fail.
C23_Original ==
    pc[Main] # "call" =>
        /\ pc[Main] # "raised"
        /\ Cardinality(Started) = hx_len
        /\ Parties = hx_len + 1
        /\ \A i \in 1 .. Len(rows) : Cardinality(DOMAIN rows[i].raw) = hx_len

\* C23 as amended: the sampler works for a list of exactly 3 drivers: it
\* starts 3 workers, its barrier has 4 parties and its Rows have 3 readings;
\* called with a list of any other length it fails at the assertion of
\* line 113, before a thread is started, a barrier.wait() entered or a Row
\* made.
C23_ExactlyThreeDrivers ==
    /\ (pc[Main] # "call" /\ hx_len # 3) =>
          /\ pc[Main] = "raised"
          /\ Started = {}
          /\ rows = << >>
          /\ \A t \in Threads : arrivals[t] = 0
          /\ file = NoFile
    /\ pc[Main] \notin {"call", "raised"} =>
          /\ hx_len = 3
          /\ Cardinality(Started) = 3
          /\ Parties = 3 + 1
          /\ \A i \in 1 .. Len(rows) : Cardinality(DOMAIN rows[i].raw) = 3
    /\ (pc[Main] = "returned" /\ n_samples > 0) =>
          \A t \in Threads : arrivals[t] >= 2 * n_samples

\* A call with a single driver has ended at the assertion.
C23_Witness ==
    /\ hx_len = 1
    /\ pc[Main] = "raised"
    /\ Started = {}

\* The header row the CSV file starts with.
Header == <<"t_s", "raw_1", "raw_2", "raw_3">>

\* C24: the file of a session that returned with an output path is the
\* header row t_s,raw_1,raw_2,raw_3 followed by one data row per Row, the
\* i-th data row for the i-th Row: its elapsed time in six decimals, then
\* the readings of channels 1, 2, 3 in that order, each what read_raw
\* returned in that tick or 0 when it raised.
C24_FileIsHeaderThenRows ==
    (pc[Main] = "returned" /\ outfile # "None") =>
        /\ Len(file.lines) = Len(rows) + 1
        /\ file.lines[1] = Header
        /\ \A i \in 1 .. Len(rows) :
              /\ Len(file.lines[i + 1]) = NumWorkers + 1
              /\ file.lines[i + 1][1] = FormatT(rows[i].t)
              /\ \A k \in Workers :
                    /\ file.lines[i + 1][k + 2] = rows[i].raw[k]
                    /\ file.lines[i + 1][k + 2] = ReadingOf(reads[k][i])
                    /\ reads[k][i].raised => file.lines[i + 1][k + 2] = 0

\* A file of two data rows: channel 1 failed in the second tick only.
C24_Witness ==
    /\ pc[Main] = "returned"
    /\ outfile = "hx711_3ch.csv"
    /\ Len(file.lines) = 3
    /\ ~reads[0][1].raised /\ file.lines[2][2] = Decode(ScriptedPattern(0, 1))
    /\ reads[0][2].raised /\ file.lines[3][2] = 0
    /\ file.lines[2][1] < file.lines[3][1]

\* C25: no file is left open in any state and none exists until
\* read_three_hx711 returns; when it has returned with an output path the
\* file is written in full and closed, without one there is no file;
\* either way the Rows are returned.
C25_FileClosedBeforeReturn ==
    /\ ~file.open
    /\ pc[Main] # "returned" => file = NoFile
    /\ pc[Main] = "returned" =>
          /\ outfile \in OutfileSet
          /\ outfile = "None" => file = NoFile
          /\ outfile # "None" => file = [open |-> FALSE, lines |-> CsvLines(rows)]
          /\ SessionResult.rows = rows
          /\ Len(SessionResult.rows) = n_samples

\* A session of one tick has returned, its file written and closed.
C25_Witness ==
    /\ pc[Main] = "returned"
    /\ outfile = "hx711_3ch.csv"
    /\ n_samples = 1
    /\ Len(file.lines) = 2
    /\ ~file.open

\* C26 (as stated): the result returned to the caller holds the Rows (and
\* so their count), the output path, and how the session ended.
C26_Original ==
    pc[Main] = "returned" =>
        /\ "rows" \in DOMAIN SessionResult
        /\ "path" \in DOMAIN SessionResult
        /\ "ended" \in DOMAIN SessionResult

\* C26 as amended: the result returned to the caller is the list of the
\* Rows captured and nothing else: one Row per tick completed, the output
\* path and the way the session ended not among its parts; a session that
\* left the loop early by a broken barrier returns fewer than n_samples
\* Rows, and only by that differs from one that completed.
C26_ResultIsRowsOnly ==
    pc[Main] = "returned" =>
        /\ DOMAIN SessionResult = {"rows"}
        /\ SessionResult.rows = rows
        /\ Len(SessionResult.rows) = completed
        /\ (tick < n_samples) <=> (Len(SessionResult.rows) < n_samples)
        /\ tick < n_samples => faults > 0

\* A session of two ticks returned one Row after the barrier broke in the
\* second tick; no output path was given.
C26_Witness ==
    /\ pc[Main] = "returned"
    /\ outfile = "None"
    /\ faults = 1
    /\ n_samples = 2
    /\ Len(SessionResult.rows) = 1

\* The readings read_raw of the k-th driver can give in tick i (the i-th
\* call): the conversion its device holds then, or 0 for a call that raised.
ChannelReadings(k, i) == {ReadingOf(o) : o \in ReadOutcomes(k, i)}

\* C27: the k-th reading of Row i is the outcome of the i-th read_raw call
\* on the k-th driver of the list: what that call did, hence 0 or the
\* conversion of the k-th device, which is the conversion of no other
\* device.
C27_ReadingsInListOrder ==
    \A i \in 1 .. Len(rows) : \A k \in Workers :
        /\ DOMAIN rows[i].raw = Workers
        /\ rows[i].raw[k] = ReadingOf(reads[k][i])
        /\ rows[i].raw[k] \in ChannelReadings(k, i)
        /\ ~reads[k][i].raised =>
              /\ rows[i].raw[k] = Decode(ScriptedPattern(k, i))
              /\ \A j \in Workers \ {k} : rows[i].raw[k] \notin ChannelReadings(j, i)

\* Every read of both ticks succeeded: the Rows are (101, 201, 301) and
\* (-102, -202, -302).
C27_Witness ==
    /\ Len(rows) = 2
    /\ rows[1].raw = [k \in Workers |-> 100 * (k + 1) + 1]
    /\ rows[2].raw = [k \in Workers |-> -(100 * (k + 1) + 2)]

\* What holds of every step of a session with respect to rows.
C28_Step ==
    /\ \/ rows' = rows
       \/ /\ Len(rows') = Len(rows) + 1
          /\ SubSeq(rows', 1, Len(rows)) = rows
          /\ pc[Main] = "append"
    /\ pc[Main] \in {"stop", "abort", "save", "returned"} => rows' = rows
    /\ \A i \in 1 .. Len(rows) : rows'[i] = rows[i]

\* C28: every step of a session leaves rows unchanged or appends one Row
\* at its end (the step of line 185); the Rows already there stay what and
\* where they were, through later ticks, failed reads and the shutdown.
C28_RowsAppendOnly == [][C28_Step]_vars

\* The session returned two Rows: channel 3 read a conversion in the first
\* tick and failed in the second; the first Row still holds the conversion.
C28_Witness ==
    /\ pc[Main] = "returned"
    /\ Len(rows) = 2
    /\ ~reads[2][1].raised
    /\ reads[2][2].raised
    /\ rows[1].raw[2] = Decode(ScriptedPattern(2, 1))
    /\ rows[2].raw[2] = 0

\* The channels whose read_raw call raised in tick i (the i-th call).
Erred(i) == {k \in Workers : reads[k][i].raised}

\* C30: for every tick collected the summary of lines 178-182 was printed
\* if and only if the read of at least one channel raised in that tick, and
\* it reports exactly the channels whose read raised.
C30_SummaryWhenAnyChannelErred ==
    /\ Len(errlog) = tick
    /\ \A i \in 1 .. Len(errlog) :
          /\ (errlog[i] # {}) <=> (Erred(i) # {})
          /\ errlog[i] = Erred(i)

\* No summary for the first tick; the second reports channels 1 and 3.
C30_Witness ==
    /\ Len(errlog) = 2
    /\ errlog[1] = {}
    /\ errlog[2] = {0, 2}
    /\ Erred(2) = {0, 2}

\* ------------------------------------------------------------------------
\* Properties of HX711.wait_ready (DriverSpec)
\* ------------------------------------------------------------------------

\* What holds in every state of a read_raw call with respect to wait_ready.
C29_State ==
    /\ polls <= MaxPolls
    /\ (ready = "pending") <=> (dpc = "wait_ready")
    /\ dpc = "wait_ready" => ENABLED DrvTimeout
    /\ (dpc = "wait_ready" /\ polls = MaxPolls) => ~ENABLED DrvPoll
    /\ ready = "no" => dpc = "raised"

\* What holds of every step.
C29_Step ==
    /\ (ready = "pending" /\ ready' = "yes") =>
          /\ dout = 0
          /\ polls < MaxPolls
          /\ polls' = polls
    /\ (ready = "pending" /\ ready' = "no") =>
          /\ polls' = polls
          /\ dpc = "wait_ready" /\ dpc' = "raised"
    /\ polls' # polls =>
          /\ polls' = polls + 1
          /\ dout = 1
          /\ ready' = "pending"
    /\ ready # "pending" => ready' = ready

\* C29: wait_ready returns True in the step in which a poll, made before
\* the timeout elapsed, reads the data line low; a poll that reads it high
\* leaves wait_ready polling; it returns False only by the timeout, no poll
\* having read the line low; the number of polls is bounded and the return
\* by timeout is always possible, so wait_ready does not poll forever.
C29_WaitReady == []C29_State /\ [][C29_Step]_vars

\* One poll read the data line high, the device became ready, the next
\* poll read it low: wait_ready returned True.
C29_Witness ==
    /\ ready = "yes"
    /\ polls = 1
    /\ dpc = "sck_on"
    /\ dout = 0
    /\ edges = 0

\* ------------------------------------------------------------------------
\* Properties of the lines of a driver (DriverSpec)
\* ------------------------------------------------------------------------

\* The step is one of this driver's read_raw.
DriverStep == dpc' # dpc \/ polls' # polls

\* What holds of every step with respect to the lines and the configuration.
C31_Step ==
    /\ gain_pulses' = gain_pulses
    /\ sck' \in {0, 1}
    /\ sck' # sck =>
          /\ DriverStep
          /\ dpc \in {"sck_on", "sck_off", "gain_on", "gain_off"}
    /\ (DriverStep /\ dpc \in {"sck_on", "gain_on"}) => (sck = 0 /\ sck' = 1)
    /\ (DriverStep /\ dpc \in {"sck_off", "gain_off"}) => (sck = 1 /\ sck' = 0)
    /\ DriverStep => other_sck' = other_sck
    /\ dout' # dout =>
          \/ /\ sck = 0 /\ sck' = 1
             /\ dout' = (IF edges' <= DataBits THEN BitOf(pattern, DataBits - edges') ELSE 1)
          \/ /\ ~DriverStep
             /\ dpc = "wait_ready" /\ dout = 1 /\ dout' = 0
    /\ other_sck' # other_sck =>
          /\ ~DriverStep
          /\ sck' = sck /\ dout' = dout /\ value' = value /\ bits' = bits

\* C31: every step of read_raw that touches a line raises or drops the
\* driver's own clock line and nothing else: gain_pulses never changes; the
\* data line changes only as the device drives it (ready, or the next bit
\* at a rising clock edge); the clock line of another driver is changed by
\* no step of this one, and its changes change nothing of this one.
C31_OnlyOwnClockLine == [][C31_Step]_vars

\* A read with three gain pulses has returned while the clock line of the
\* other driver is high.
C31_Witness ==
    /\ dpc = "returned"
    /\ gain_pulses = 3
    /\ edges = DataBits + 3
    /\ sck = 0
    /\ other_sck = 1

\* What holds of the clock line in every state.
C33_State ==
    /\ sck \in {0, 1}
    /\ dpc \in {"wait_ready", "sck_on", "gain_on", "decode", "returned", "raised"} => sck = 0
    /\ (sck = 1) <=> (dpc \in {"sample", "sck_off", "gain_off"})
    /\ sck = 1 => ENABLED (DrvSample \/ DrvClockLow \/ DrvGainLow)

\* What the driver does next while the clock line is high.
C33_Step ==
    (sck = 1 /\ DriverStep) =>
        \/ /\ dpc = "sample" /\ dpc' = "sck_off"
           /\ bits' = Append(bits, dout)
           /\ sck' = 1
        \/ /\ dpc \in {"sck_off", "gain_off"}
           /\ sck' = 0

\* C33: the clock line is low after construction, while wait_ready polls,
\* between pulses, when read_raw has returned and when it has raised; when
\* it is high the driver is inside one pulse, and its next steps are the
\* sampling of the data line (in a data pulse) and then the drop of the
\* clock line, which it can always take.
C33_ClockLowOutsidePulse == []C33_State /\ [][C33_Step]_vars

\* The driver is inside its third gain pulse, the clock line high.
C33_Witness ==
    /\ sck = 1
    /\ dpc = "gain_off"
    /\ extra_pulses = 3
    /\ Len(bits) = DataBits

\* ------------------------------------------------------------------------
\* Properties of the timestamps and of termination (Spec, LiveSpec)
\* ------------------------------------------------------------------------

\* What holds of the timestamps of the Rows in every state.
C34_State ==
    \A i \in 1 .. Len(rows) :
        /\ rows[i].t >= (i - 1) * Period(rate_hz)
        /\ rows[i].t * rate_hz >= (i - 1) * TimeUnits
        /\ rows[i].t <= clock - t_start
        /\ i > 1 => rows[i - 1].t <= rows[i].t

\* What holds of the step that appends a Row.
C34_Step ==
    Len(rows') > Len(rows) =>
        /\ pc[Main] = "append"
        /\ completed = Len(rows')
        /\ rows'[Len(rows')].raw = vcopy
        /\ clock' >= clock
        /\ rows'[Len(rows')].t = clock' - t_start

\* C34: the time of Row i (i = 0, 1, ...) is read when the coordinator has
\* come back from the second rendezvous of tick i and copied the slots; it
\* is at least i / rate_hz after the start, and the times do not decrease
\* along rows.
C34_TimestampsFollowSchedule == []C34_State /\ [][C34_Step]_vars

\* Two Rows taken exactly on schedule: at 0 and at one period.
C34_Witness ==
    /\ Len(rows) = 2
    /\ rows[1].t = 0
    /\ rows[2].t = Period(rate_hz)

\* The threads that are inside barrier.wait().
InBarrier == {t \in Threads : pc[t] \in {"inA", "inB"}}

\* What holds in every state of a session with respect to its progress.
C32_State ==
    /\ pc[Main] # "returned" => ENABLED Next
    /\ \A t \in InBarrier : \A u \in InBarrier :
          /\ pc[t] = pc[u]
          /\ arrivals[t] = arrivals[u]
    /\ \A t \in Threads :
          /\ pc[t] = "inA" => arrivals[t] % 2 = 1
          /\ pc[t] = "inB" => arrivals[t] % 2 = 0
    /\ pc[Main] = "returned" =>
          /\ tick = n_samples
          /\ Len(rows) = n_samples
          /\ completed = n_samples

\* C32: under a fair scheduler, read_raw calls returning or timing out,
\* the session returns in the end, with all n_samples ticks done; before
\* that some thread can always take a step, and the threads that wait
\* inside the barrier together are all in the same rendezvous of the same
\* tick (never one in its second wait with one in a first wait).
C32_SessionTerminates == []C32_State /\ <>(pc[Main] = "returned")

\* A session of two ticks has returned and every worker has ended.
C32_Witness ==
    /\ pc[Main] = "returned"
    /\ n_samples = 2
    /\ tick = 2
    /\ \A k \in Workers : pc[k] = "done" /\ arrivals[k] >= 4

====
